---- MODULE Spec2Model ----
(***************************************************************************)
(* Model of the dynamic to-do list scripts: src/script.js,                 *)
(* src/unnamed/part_000 and src/unnamed/part_001.                          *)
(*                                                                         *)
(* A string is a sequence of one-character strings.  localStorage holds,   *)
(* under the key 'tasks', either nothing or a string; the scripts read it  *)
(* with JSON.parse and write it with JSON.stringify, both modelled on the  *)
(* characters.  The visible list is the sequence of the <li> elements of   *)
(* #task-list, each represented by the taskText its closure captured       *)
(* (which is also its textContent).                                        *)
(*                                                                         *)
(* Spec and SpecMalformed follow one page.  SpecSideBySide runs the three  *)
(* scripts next to each other, each on its own page and store (pages), on  *)
(* the same events.  SpecTwoTabs runs two pages of one script on one       *)
(* shared store (storage), with the submitted texts in log.                *)
(***************************************************************************)
EXTENDS Integers, Sequences, FiniteSets, TLC

VARIABLES variant, storage, taskList, inputValue, listeners,
          message, uncaught, lastOp, initial,
          pages, log

vars == <<variant, storage, taskList, inputValue, listeners,
          message, uncaught, lastOp, initial, pages, log>>

\* ---------------------------------------------------------------- bounds
MaxTasks == 3
MaxInit == 2

\* ------------------------------------------------------------- alphabets
Variants == {"script", "part_000", "part_001"}

Quote == "\""

\* texts the user may have in the input field when an event fires
Inputs == { <<>>, <<" ">>, <<"a">>, <<"b">>, <<" ", "a", " ">> }

\* strings a previously persisted array may hold
InitTexts == { <<>>, <<"a">>, <<"b">>, <<" ", "a">> }

\* keys of a keypress event
Keys == {"Enter", "a"}

\* ------------------------------------------------------- String.trim()
RECURSIVE trimStart(_)
trimStart(s) ==
    IF s # <<>> /\ Head(s) = " " THEN trimStart(Tail(s)) ELSE s

RECURSIVE trimEnd(_)
trimEnd(s) ==
    IF s # <<>> /\ s[Len(s)] = " " THEN trimEnd(SubSeq(s, 1, Len(s) - 1)) ELSE s

\* a trim that forgets the trailing whitespace
trim_startOnly(s) == trimStart(s)

trim(s) == trimEnd(trimStart(s))

\* ------------------------------------------------------ JSON.stringify
JSONstringifyString(t) == <<Quote>> \o t \o <<Quote>>

RECURSIVE JSONstringifyElems(_)
JSONstringifyElems(tasks) ==
    IF tasks = <<>> THEN <<>>
    ELSE IF Len(tasks) = 1 THEN JSONstringifyString(tasks[1])
    ELSE JSONstringifyString(Head(tasks)) \o <<",">> \o JSONstringifyElems(Tail(tasks))

JSONstringify(tasks) == <<"[">> \o JSONstringifyElems(tasks) \o <<"]">>

\* ---------------------------------------------------------- JSON.parse
\* The result is [ok, val]: ok = FALSE stands for the exception the caller
\* ends with (a SyntaxError of JSON.parse, or the TypeError of calling
\* forEach / push / filter on a value that is not an array).
ParseFail == [ok |-> FALSE, val |-> <<>>]

ParseOk(v) == [ok |-> TRUE, val |-> v]

RECURSIVE SkipWs(_, _)
SkipWs(s, i) ==
    IF i <= Len(s) /\ s[i] = " " THEN SkipWs(s, i + 1) ELSE i

RECURSIVE CloseQuote(_, _)
CloseQuote(s, i) ==
    IF i > Len(s) THEN 0
    ELSE IF s[i] = Quote THEN i
    ELSE CloseQuote(s, i + 1)

RECURSIVE ParseElems(_, _, _)
ParseElems(s, i, acc) ==
    LET j == SkipWs(s, i) IN
    IF j > Len(s) \/ s[j] # Quote THEN ParseFail
    ELSE LET k == CloseQuote(s, j + 1) IN
         IF k = 0 THEN ParseFail
         ELSE LET acc2 == Append(acc, SubSeq(s, j + 1, k - 1))
                  m == SkipWs(s, k + 1)
              IN  IF m > Len(s) THEN ParseFail
                  ELSE IF s[m] = "," THEN ParseElems(s, m + 1, acc2)
                  ELSE IF s[m] = "]" /\ SkipWs(s, m + 1) > Len(s) THEN ParseOk(acc2)
                  ELSE ParseFail

JSONparse(s) ==
    LET i == SkipWs(s, 1) IN
    IF i > Len(s) \/ s[i] # "[" THEN ParseFail
    ELSE LET j == SkipWs(s, i + 1) IN
         IF j <= Len(s) /\ s[j] = "]"
         THEN IF SkipWs(s, j + 1) > Len(s) THEN ParseOk(<<>>) ELSE ParseFail
         ELSE ParseElems(s, i + 1, <<>>)

\* -------------------------------------------------------- localStorage
NoItem == [present |-> FALSE, value |-> <<>>]

Item(s) == [present |-> TRUE, value |-> s]

\* the read without the  || '[]'  default: JSON.parse(null) is null
getItem_noDefault(st) == st.value

\* localStorage.getItem('tasks') || '[]'
getItemOrDefault(st) ==
    IF st.present /\ st.value # <<>> THEN st.value ELSE <<"[", "]">>

\* JSON.parse(localStorage.getItem('tasks') || '[]')
storedTasks(st) == JSONparse(getItemOrDefault(st))

\* a removal of the first matching element only
RECURSIVE filterNot_firstOnly(_, _)
filterNot_firstOnly(tasks, taskText) ==
    IF tasks = <<>> THEN <<>>
    ELSE IF Head(tasks) # taskText
         THEN <<Head(tasks)>> \o filterNot_firstOnly(Tail(tasks), taskText)
         ELSE Tail(tasks)

\* tasks.filter(task => task !== taskText)
RECURSIVE filterNot(_, _)
filterNot(tasks, taskText) ==
    IF tasks = <<>> THEN <<>>
    ELSE IF Head(tasks) # taskText
         THEN <<Head(tasks)>> \o filterNot(Tail(tasks), taskText)
         ELSE filterNot(Tail(tasks), taskText)

\* a removal of the last child whatever entry was clicked
removeChild_last(list, i) == SubSeq(list, 1, Len(list) - 1)

\* taskList.removeChild(li), li being the i-th child
removeChild(list, i) == SubSeq(list, 1, i - 1) \o SubSeq(list, i + 1, Len(list))

\* ---------------------------------------------------------- page state
\* The part of the state a handler reads and writes: the value under
\* 'tasks', the children of #task-list, the value of #task-input, whether
\* the click / keypress listeners are attached, whether the handler showed
\* the validation message, and whether it ended with an uncaught exception.
Page(st, list, inp, lis) ==
    [storage |-> st, taskList |-> list, inputValue |-> inp,
     listeners |-> lis, message |-> FALSE, uncaught |-> FALSE]

\* ------------------------------------------------------- src/script.js
\* a save that puts the new task first (unshift instead of push)
saveTaskToLocalStorage_unshift(p, taskText) ==
    LET tasks == storedTasks(p.storage) IN
    IF ~tasks.ok THEN [p EXCEPT !.uncaught = TRUE]
    ELSE [p EXCEPT !.storage = Item(JSONstringify(<<taskText>> \o tasks.val))]

\* a save that writes the page's own list instead of re-reading the store
saveTaskToLocalStorage_fromVisible(p, taskText) ==
    [p EXCEPT !.storage = Item(JSONstringify(p.taskList))]

saveTaskToLocalStorage(p, taskText) ==
    LET tasks == storedTasks(p.storage) IN
    IF ~tasks.ok THEN [p EXCEPT !.uncaught = TRUE]
    ELSE [p EXCEPT !.storage = Item(JSONstringify(Append(tasks.val, taskText)))]

removeTaskFromLocalStorage(p, taskText) ==
    LET tasks == storedTasks(p.storage) IN
    IF ~tasks.ok THEN [p EXCEPT !.uncaught = TRUE]
    ELSE [p EXCEPT !.storage = Item(JSONstringify(filterNot(tasks.val, taskText)))]

addTask_script(p, taskText, save) ==
    LET q == [p EXCEPT !.taskList = Append(@, taskText)] IN
    IF save THEN saveTaskToLocalStorage(q, taskText) ELSE q

RECURSIVE forEachAdd_script(_, _)
forEachAdd_script(p, tasks) ==
    IF tasks = <<>> THEN p
    ELSE forEachAdd_script(addTask_script(p, Head(tasks), FALSE), Tail(tasks))

loadTasks_script(p) ==
    LET tasks == storedTasks(p.storage) IN
    IF ~tasks.ok THEN [p EXCEPT !.uncaught = TRUE]
    ELSE forEachAdd_script(p, tasks.val)

\* the body shared by the click listener and the Enter branch of keypress
submit_script(p) ==
    LET taskText == trim(p.inputValue) IN
    IF taskText # <<>>
    THEN LET q == addTask_script(p, taskText, TRUE) IN
         IF q.uncaught THEN q ELSE [q EXCEPT !.inputValue = <<>>]
    ELSE [p EXCEPT !.message = TRUE]

removeBtnOnclick_script(p, i) ==
    LET taskText == p.taskList[i] IN
    removeTaskFromLocalStorage(
        [p EXCEPT !.taskList = removeChild(@, i)], taskText)

\* loadTasks() runs before the listeners are attached
DOMContentLoaded_script(p) ==
    LET q == loadTasks_script(p) IN
    IF q.uncaught THEN q ELSE [q EXCEPT !.listeners = TRUE]

\* ------------------------------------------------ src/unnamed/part_000
showMessage(p) == [p EXCEPT !.message = TRUE]

updateLocalStorageOnRemoval(p, taskToRemove) ==
    LET tasks == storedTasks(p.storage) IN
    IF ~tasks.ok THEN [p EXCEPT !.uncaught = TRUE]
    ELSE [p EXCEPT !.storage = Item(JSONstringify(filterNot(tasks.val, taskToRemove)))]

\* taskTextFromParam is <<>> both for a missing argument and for '': the
\* two are falsy alike in  taskTextFromParam || taskInput.value.trim()
addTask_part000(p, taskTextFromParam, save) ==
    LET taskText == IF taskTextFromParam # <<>> THEN taskTextFromParam
                    ELSE trim(p.inputValue)
    IN
    IF taskText = <<>> THEN showMessage(p)
    ELSE LET q == [p EXCEPT !.taskList = Append(@, taskText),
                            !.inputValue = <<>>]
             tasks == storedTasks(q.storage)
         IN  IF ~save THEN q
             ELSE IF ~tasks.ok THEN [q EXCEPT !.uncaught = TRUE]
             ELSE [q EXCEPT !.storage =
                       Item(JSONstringify(Append(tasks.val, taskText)))]

RECURSIVE forEachAdd_part000(_, _)
forEachAdd_part000(p, tasks) ==
    IF tasks = <<>> THEN p
    ELSE forEachAdd_part000(addTask_part000(p, Head(tasks), FALSE), Tail(tasks))

loadTasks_part000(p) ==
    LET tasks == storedTasks(p.storage) IN
    IF ~tasks.ok THEN [p EXCEPT !.uncaught = TRUE]
    ELSE forEachAdd_part000(p, tasks.val)

\* () => addTask()
submit_part000(p) == addTask_part000(p, <<>>, TRUE)

removeButtonOnclick_part000(p, i) ==
    LET taskText == p.taskList[i] IN
    updateLocalStorageOnRemoval(
        [p EXCEPT !.taskList = removeChild(@, i)], taskText)

\* the listeners are attached before loadTasks() runs
DOMContentLoaded_part000(p) ==
    loadTasks_part000([p EXCEPT !.listeners = TRUE])

\* ------------------------------------------------ src/unnamed/part_001
saveTaskToStorage(p, taskText) ==
    LET tasks == storedTasks(p.storage) IN
    IF ~tasks.ok THEN [p EXCEPT !.uncaught = TRUE]
    ELSE [p EXCEPT !.storage = Item(JSONstringify(Append(tasks.val, taskText)))]

removeTaskFromStorage(p, taskText) ==
    LET tasks == storedTasks(p.storage) IN
    IF ~tasks.ok THEN [p EXCEPT !.uncaught = TRUE]
    ELSE [p EXCEPT !.storage = Item(JSONstringify(filterNot(tasks.val, taskText)))]

addTask_part001(p, taskText, saveToStorage) ==
    LET q == [p EXCEPT !.taskList = Append(@, taskText)] IN
    IF saveToStorage THEN saveTaskToStorage(q, taskText) ELSE q

RECURSIVE forEachAdd_part001(_, _)
forEachAdd_part001(p, tasks) ==
    IF tasks = <<>> THEN p
    ELSE forEachAdd_part001(addTask_part001(p, Head(tasks), FALSE), Tail(tasks))

loadTasks_part001(p) ==
    LET tasks == storedTasks(p.storage) IN
    IF ~tasks.ok THEN [p EXCEPT !.uncaught = TRUE]
    ELSE forEachAdd_part001(p, tasks.val)

\* a submit that leaves the input as it was
submit_part001_keepInput(p) ==
    LET taskText == trim(p.inputValue) IN
    IF taskText # <<>> THEN addTask_part001(p, taskText, TRUE) ELSE p

\* no else branch: an empty text is dropped without a message
submit_part001(p) ==
    LET taskText == trim(p.inputValue) IN
    IF taskText # <<>>
    THEN LET q == addTask_part001(p, taskText, TRUE) IN
         IF q.uncaught THEN q ELSE [q EXCEPT !.inputValue = <<>>]
    ELSE p

\* a Remove handler that detaches the entry and leaves the store alone
removeBtnOnclick_part001_domOnly(p, i) ==
    [p EXCEPT !.taskList = removeChild(@, i)]

removeBtnOnclick_part001(p, i) ==
    LET taskText == p.taskList[i] IN
    removeTaskFromStorage(
        [p EXCEPT !.taskList = removeChild(@, i)], taskText)

DOMContentLoaded_part001(p) ==
    LET q == loadTasks_part001(p) IN
    IF q.uncaught THEN q ELSE [q EXCEPT !.listeners = TRUE]

\* ------------------------------------------------------------ dispatch
DOMContentLoaded(v, p) ==
    CASE v = "script"   -> DOMContentLoaded_script(p)
      [] v = "part_000" -> DOMContentLoaded_part000(p)
      [] v = "part_001" -> DOMContentLoaded_part001(p)

submit(v, p) ==
    CASE v = "script"   -> submit_script(p)
      [] v = "part_000" -> submit_part000(p)
      [] v = "part_001" -> submit_part001(p)

removeClick(v, p, i) ==
    CASE v = "script"   -> removeBtnOnclick_script(p, i)
      [] v = "part_000" -> removeButtonOnclick_part000(p, i)
      [] v = "part_001" -> removeBtnOnclick_part001(p, i)

\* --------------------------------------------------------------- state
CurrentPage == Page(storage, taskList, inputValue, listeners)

\* the page after a handler: every variable the handler can change
Becomes(p) ==
    /\ storage' = p.storage
    /\ taskList' = p.taskList
    /\ inputValue' = p.inputValue
    /\ listeners' = p.listeners
    /\ message' = p.message
    /\ uncaught' = p.uncaught

\* The last event: its kind; for a Remove click the position of the entry;
\* for a submit the raw input and its trimmed text; for a load the text of
\* the non-empty submit that ran immediately before it (else <<>>).
Op(kind, i, raw, text) == [op |-> kind, index |-> i, raw |-> raw, text |-> text]

NoOp == Op("none", 0, <<>>, <<>>)

IsSubmit(kind) == kind \in {"click", "enter"}

RECURSIVE SeqsUpTo(_, _)
SeqsUpTo(S, n) ==
    IF n = 0 THEN { <<>> }
    ELSE LET R == SeqsUpTo(S, n - 1) IN
         R \cup { Append(r, x) : r \in { q \in R : Len(q) = n - 1 }, x \in S }

\* values under 'tasks' before the first load: none, or an array of strings
InitStores == { NoItem } \cup { Item(JSONstringify(l)) : l \in SeqsUpTo(InitTexts, MaxInit) }

\* values under 'tasks' that JSON.parse rejects
MalformedStores == { Item(<<"[">>), Item(<<"a">>), Item(<<"[", Quote, "a", "]">>) }

\* a non-empty string without leading or trailing whitespace
WellFormed(t) == t # <<>> /\ t[1] # " " /\ t[Len(t)] # " "

AllWellFormed(seq) == \A k \in 1..Len(seq) : WellFormed(seq[k])

\* what is remembered of the value under 'tasks' before the first load:
\* whether there was one, and whether it was an array of well-formed tasks
Remembered(st) ==
    [present |-> st.present,
     wellFormed |-> storedTasks(st).ok /\ AllWellFormed(storedTasks(st).val)]

InitWith(stores) ==
    /\ variant \in Variants
    /\ storage \in stores
    /\ initial = Remembered(storage)
    /\ taskList = <<>>
    /\ inputValue = <<>>
    /\ listeners = FALSE
    /\ message = FALSE
    /\ uncaught = FALSE
    /\ lastOp = NoOp
    /\ pages = <<>>
    /\ log = <<>>

Init == InitWith(InitStores)

InitMalformed == InitWith(InitStores \cup MalformedStores)

\* the number of tasks the next add would bring the page or the store to
RoomToAdd ==
    /\ Len(taskList) < MaxTasks
    /\ storedTasks(storage).ok => Len(storedTasks(storage).val) < MaxTasks

\* A (re)load of the page: a new document, with an empty list and an empty
\* input and no listeners, on which the DOMContentLoaded handler runs.
PageLoad ==
    /\ Becomes(DOMContentLoaded(variant, Page(storage, <<>>, <<>>, FALSE)))
    /\ lastOp' = Op("load", 0, <<>>,
                    IF IsSubmit(lastOp.op) /\ ~uncaught THEN lastOp.text ELSE <<>>)
    /\ UNCHANGED <<variant, initial, pages, log>>

\* The user edits the input field (no handler of the scripts runs).
InputText ==
    /\ \E v \in Inputs : inputValue' = v
    /\ inputValue' # inputValue
    /\ message' = FALSE
    /\ uncaught' = FALSE
    /\ lastOp' = Op("input", 0, <<>>, <<>>)
    /\ UNCHANGED <<variant, storage, taskList, listeners, initial, pages, log>>

\* addButton 'click'
AddButtonClick ==
    /\ listeners
    /\ RoomToAdd
    /\ Becomes(submit(variant, CurrentPage))
    /\ lastOp' = Op("click", 0, inputValue, trim(inputValue))
    /\ UNCHANGED <<variant, initial, pages, log>>

\* taskInput 'keypress'
KeyPress ==
    /\ listeners
    /\ RoomToAdd
    /\ \E key \in Keys :
         /\ IF key = "Enter"
            THEN Becomes(submit(variant, CurrentPage))
            ELSE Becomes(CurrentPage)
         /\ lastOp' = IF key = "Enter"
                       THEN Op("enter", 0, inputValue, trim(inputValue))
                       ELSE Op("key", 0, <<>>, <<>>)
    /\ UNCHANGED <<variant, initial, pages, log>>

\* 'click' on the Remove button of the i-th visible entry
RemoveClick ==
    /\ \E i \in 1..Len(taskList) :
         /\ Becomes(removeClick(variant, CurrentPage, i))
         /\ lastOp' = Op("remove", i, <<>>, taskList[i])
    /\ UNCHANGED <<variant, initial, pages, log>>

Next ==
    \/ PageLoad
    \/ InputText
    \/ AddButtonClick
    \/ KeyPress
    \/ RemoveClick

Spec == Init /\ [][Next]_vars

SpecMalformed == InitMalformed /\ [][Next]_vars

\* ------------------------------------------------ three pages side by side
\* the page as an event finds it: the message and the exception are those
\* of the previous event
Fresh(p) == Page(p.storage, p.taskList, p.inputValue, p.listeners)

\* a submit event (click, or keypress of Enter) runs the listener if attached
OnSubmit(v, p) == IF p.listeners THEN submit(v, Fresh(p)) ELSE Fresh(p)

InitSideBySide ==
    /\ variant = "all"
    /\ storage = NoItem
    /\ taskList = <<>>
    /\ inputValue = <<>>
    /\ listeners = FALSE
    /\ message = FALSE
    /\ uncaught = FALSE
    /\ lastOp = NoOp
    /\ log = <<>>
    /\ \E st \in InitStores :
          /\ initial = Remembered(st)
          /\ pages = [v \in Variants |-> Page(st, <<>>, <<>>, FALSE)]

SideFrame ==
    UNCHANGED <<variant, storage, taskList, inputValue, listeners,
                message, uncaught, initial, log>>

SideRoomToAdd ==
    \A v \in Variants :
       /\ Len(pages[v].taskList) < MaxTasks
       /\ storedTasks(pages[v].storage).ok =>
             Len(storedTasks(pages[v].storage).val) < MaxTasks

\* the three pages are (re)loaded
SideLoad ==
    /\ pages' = [v \in Variants |->
                   DOMContentLoaded(v, Page(pages[v].storage, <<>>, <<>>, FALSE))]
    /\ lastOp' = Op("load", 0, <<>>, <<>>)
    /\ SideFrame

\* the same text is typed into the three input fields
SideInputText ==
    /\ \E val \in Inputs :
          /\ \E v \in Variants : pages[v].inputValue # val
          /\ pages' = [v \in Variants |->
                         [Fresh(pages[v]) EXCEPT !.inputValue = val]]
    /\ lastOp' = Op("input", 0, <<>>, <<>>)
    /\ SideFrame

\* the three Add Task buttons are clicked
SideAddButtonClick ==
    /\ SideRoomToAdd
    /\ pages' = [v \in Variants |-> OnSubmit(v, pages[v])]
    /\ lastOp' = Op("click", 0, <<>>, <<>>)
    /\ SideFrame

\* the same key is pressed in the three input fields
SideKeyPress ==
    /\ SideRoomToAdd
    /\ \E key \in Keys :
          /\ pages' = [v \in Variants |->
                         IF key = "Enter" THEN OnSubmit(v, pages[v])
                         ELSE Fresh(pages[v])]
          /\ lastOp' = Op(IF key = "Enter" THEN "enter" ELSE "key", 0, <<>>, <<>>)
    /\ SideFrame

\* the Remove button of the i-th entry is clicked on the three pages
SideRemoveClick ==
    /\ \E i \in 1..MaxTasks :
          /\ \A v \in Variants : i <= Len(pages[v].taskList)
          /\ pages' = [v \in Variants |-> removeClick(v, Fresh(pages[v]), i)]
          /\ lastOp' = Op("remove", i, <<>>, <<>>)
    /\ SideFrame

NextSideBySide ==
    \/ SideLoad
    \/ SideInputText
    \/ SideAddButtonClick
    \/ SideKeyPress
    \/ SideRemoveClick

SpecSideBySide == InitSideBySide /\ [][NextSideBySide]_vars

\* ------------------------------------------- two pages on one shared store
Tabs == {1, 2}

\* the page of tab t, reading and writing the shared store
TabPage(t) ==
    Page(storage, pages[t].taskList, pages[t].inputValue, pages[t].listeners)

\* the shared store and the page of tab t after a handler of tab t
TabBecomes(t, p) ==
    /\ storage' = p.storage
    /\ pages' = [pages EXCEPT ![t] = [p EXCEPT !.storage = NoItem]]

InitTwoTabs ==
    /\ variant \in Variants
    /\ storage \in InitStores
    /\ initial = Remembered(storage)
    /\ taskList = <<>>
    /\ inputValue = <<>>
    /\ listeners = FALSE
    /\ message = FALSE
    /\ uncaught = FALSE
    /\ lastOp = NoOp
    /\ pages = [t \in Tabs |-> Page(NoItem, <<>>, <<>>, FALSE)]
    /\ log = storedTasks(storage).val

TabFrame ==
    UNCHANGED <<variant, taskList, inputValue, listeners, message, uncaught, initial>>

TabRoomToAdd(t) ==
    /\ Len(pages[t].taskList) < MaxTasks
    /\ Len(log) < MaxTasks
    /\ storedTasks(storage).ok => Len(storedTasks(storage).val) < MaxTasks

\* the text a submit of tab t adds: the trimmed input, if not empty
Submitted(t) ==
    IF trim(pages[t].inputValue) # <<>> THEN << trim(pages[t].inputValue) >> ELSE <<>>

\* tab t opens the page: its DOMContentLoaded handler runs, once
TabLoad ==
    /\ \E t \in Tabs :
          /\ ~pages[t].listeners
          /\ TabBecomes(t, DOMContentLoaded(variant, Page(storage, <<>>, <<>>, FALSE)))
          /\ lastOp' = Op("load", t, <<>>, <<>>)
    /\ UNCHANGED log
    /\ TabFrame

\* the user edits the input field of tab t
TabInputText ==
    /\ \E t \in Tabs, val \in Inputs :
          /\ pages[t].inputValue # val
          /\ TabBecomes(t, [TabPage(t) EXCEPT !.inputValue = val])
          /\ lastOp' = Op("input", t, <<>>, <<>>)
    /\ UNCHANGED log
    /\ TabFrame

\* addButton 'click' in tab t
TabAddButtonClick ==
    /\ \E t \in Tabs :
          /\ pages[t].listeners
          /\ TabRoomToAdd(t)
          /\ TabBecomes(t, submit(variant, TabPage(t)))
          /\ log' = log \o Submitted(t)
          /\ lastOp' = Op("click", t, <<>>, <<>>)
    /\ TabFrame

\* taskInput 'keypress' in tab t
TabKeyPress ==
    /\ \E t \in Tabs, key \in Keys :
          /\ pages[t].listeners
          /\ TabRoomToAdd(t)
          /\ IF key = "Enter"
             THEN /\ TabBecomes(t, submit(variant, TabPage(t)))
                  /\ log' = log \o Submitted(t)
                  /\ lastOp' = Op("enter", t, <<>>, <<>>)
             ELSE /\ TabBecomes(t, TabPage(t))
                  /\ log' = log
                  /\ lastOp' = Op("key", t, <<>>, <<>>)
    /\ TabFrame

NextTwoTabs ==
    \/ TabLoad
    \/ TabInputText
    \/ TabAddButtonClick
    \/ TabKeyPress

SpecTwoTabs == InitTwoTabs /\ [][NextTwoTabs]_vars

\* ============================================================== claims
Persisted == storedTasks(storage).val

PersistedOk == storedTasks(storage).ok

Count(seq, x) == Cardinality({ k \in 1..Len(seq) : seq[k] = x })

Last(seq) == seq[Len(seq)]

\* C1: at rest, once the page has been initialized, the visible list and the
\* persisted sequence hold the same task strings in the same order.
C1_VisibleEqualsPersisted ==
    lastOp.op # "none" => PersistedOk /\ taskList = Persisted

C3_AddThenReload ==
    /\ IsSubmit(lastOp.op) /\ lastOp.text # <<>> =>
          PersistedOk /\ Persisted # <<>> /\ Last(Persisted) = lastOp.text
    /\ lastOp.op = "load" /\ lastOp.text # <<>> =>
          taskList # <<>> /\ Last(taskList) = lastOp.text

C3_Witness ==
    /\ lastOp.op = "load"
    /\ lastOp.text = <<"a">>
    /\ Len(taskList) >= 2

\* C4: a submit of an empty or whitespace-only input adds no visible entry,
\* leaves the persisted value unchanged and shows a validation message, in
\* every variant.
C4_EmptySubmitNoOpWithMessage ==
    [][IsSubmit(lastOp'.op) /\ trim(inputValue) = <<>> =>
          /\ taskList' = taskList
          /\ storage' = storage
          /\ message']_vars

\* C5: when the visible list equals the persisted sequence, a Remove click on
\* the entry with text t deletes exactly that entry from the visible list and
\* leaves in the persisted sequence exactly the elements different from t, in
\* their order.
C5_RemoveUpdatesBoth ==
    [][lastOp'.op = "remove" /\ PersistedOk /\ taskList = Persisted =>
          LET i == lastOp'.index
              t == taskList[i]
          IN  /\ Len(taskList') = Len(taskList) - 1
              /\ \A j \in 1..Len(taskList') :
                    taskList'[j] = IF j < i THEN taskList[j] ELSE taskList[j + 1]
              /\ storedTasks(storage').ok
              /\ Count(storedTasks(storage').val, t) = 0
              /\ storedTasks(storage').val = SelectSeq(Persisted, LAMBDA x : x # t)]_vars

C5_Witness ==
    /\ lastOp.op = "remove"
    /\ lastOp.index = 2
    /\ taskList = << <<"a">>, <<"a">> >>
    /\ Persisted = << <<"a">>, <<"a">> >>

\* C6: when the persisted sequence holds k >= 2 occurrences of t, all of them
\* rendered, a Remove click on one visible t entry deletes every occurrence
\* of t from the persisted sequence and exactly the clicked entry from the
\* visible list, so k - 1 visible t entries are left without a counterpart.
C6_DuplicateRemoval ==
    [][/\ lastOp'.op = "remove"
       /\ PersistedOk
       /\ Count(Persisted, lastOp'.text) >= 2
       /\ Count(taskList, lastOp'.text) = Count(Persisted, lastOp'.text)
       => LET t == lastOp'.text
              k == Count(Persisted, t)
          IN  /\ taskList[lastOp'.index] = t
              /\ storedTasks(storage').ok
              /\ Count(storedTasks(storage').val, t) = 0
              /\ Len(taskList') = Len(taskList) - 1
              /\ Count(taskList', t) = k - 1
              /\ Len(storedTasks(storage').val) = Len(Persisted) - k]_vars

C6_Witness ==
    /\ lastOp.op = "remove"
    /\ lastOp.text = <<"a">>
    /\ Count(taskList, <<"a">>) = 2
    /\ PersistedOk
    /\ Count(Persisted, <<"a">>) = 0

\* C7: with no value under 'tasks', a load ends without an exception, renders
\* no entry and attaches the listeners, and the first non-empty submit
\* persists a one-element sequence.
C7_MissingKey ==
    [][~storage.present =>
          /\ lastOp'.op = "load" =>
                ~uncaught' /\ taskList' = <<>> /\ listeners' /\ storage' = storage
          /\ IsSubmit(lastOp'.op) /\ trim(inputValue) # <<>> =>
                ~uncaught' /\ storedTasks(storage').ok /\ storedTasks(storage').val = << trim(inputValue) >>]_vars

C7_Witness ==
    /\ ~initial.present
    /\ IsSubmit(lastOp.op)
    /\ lastOp.text = <<"b">>
    /\ taskList = << <<"b">> >>
    /\ storage = Item(<<"[", Quote, "b", Quote, "]">>)

\* C8: when the value under 'tasks' is not parsable JSON, a load treats it as
\* the empty sequence: no entry, no failure, and the submit listeners
\* attached.
C8_MalformedAsEmpty ==
    [][lastOp'.op = "load" /\ ~PersistedOk =>
          /\ taskList' = <<>>
          /\ ~uncaught'
          /\ listeners']_vars

\* C9: a submit of an input whose trimmed text t is not empty appends t to
\* the visible list and to the persisted sequence, changing no other entry,
\* and empties the input field.
C9_SubmitAppends ==
    [][IsSubmit(lastOp'.op) /\ trim(inputValue) # <<>> =>
          /\ taskList' = taskList \o << trim(inputValue) >>
          /\ storedTasks(storage').ok
          /\ storedTasks(storage').val = Persisted \o << trim(inputValue) >>
          /\ inputValue' = <<>>]_vars

C9_Witness ==
    /\ IsSubmit(lastOp.op)
    /\ lastOp.raw = <<" ", "a", " ">>
    /\ Len(taskList) = 3
    /\ Count(taskList, <<"a">>) = 2
    /\ Count(Persisted, <<"a">>) = 2
    /\ inputValue = <<>>

\* C10: if every element of the initially persisted sequence is a non-empty
\* string without leading or trailing whitespace, so is every element of the
\* persisted sequence and every visible entry, after any events.
C10_WellFormedTasks ==
    initial.wellFormed =>
        /\ PersistedOk
        /\ AllWellFormed(Persisted)
        /\ AllWellFormed(taskList)

C10_Witness ==
    /\ initial.wellFormed
    /\ initial.present
    /\ IsSubmit(lastOp.op)
    /\ lastOp.raw = <<" ", "a", " ">>
    /\ Len(taskList) >= 2
    /\ Len(Persisted) >= 2

\* C12: every add and every remove changes both the visible list and the
\* persisted value or neither, also when the value under 'tasks' cannot be
\* parsed at the time of the operation: no operation modifies the visible
\* list and then stops without writing the store.
C12_AtomicOverBothSurfaces ==
    [][(IsSubmit(lastOp'.op) \/ lastOp'.op = "remove") /\ uncaught' =>
          /\ taskList' = taskList
          /\ inputValue' = inputValue
          /\ storage' = storage]_vars

\* a is an order-preserving subsequence of b
RECURSIVE IsSubseq(_, _)
IsSubseq(a, b) ==
    IF a = <<>> THEN TRUE
    ELSE IF b = <<>> THEN FALSE
    ELSE IF Head(a) = Head(b) THEN IsSubseq(Tail(a), Tail(b))
    ELSE IsSubseq(a, Tail(b))

\* C14: in a page session that starts with a load (which attaches the
\* listeners) on a store of well-formed tasks, after any submits and Remove clicks the persisted sequence is an
\* order-preserving subsequence of the visible texts; so a reload renders no
\* task that was not visible just before it, and an empty visible list means
\* an empty persisted sequence.
C14_PersistedSubsequenceOfVisible ==
    [][initial.wellFormed /\ listeners' =>
          /\ storedTasks(storage').ok
          /\ IsSubseq(storedTasks(storage').val, taskList')
          /\ taskList' = <<>> => storedTasks(storage').val = <<>>
          /\ lastOp'.op = "load" /\ listeners =>
                IsSubseq(taskList', taskList)]_vars

C14_Witness ==
    /\ initial.wellFormed
    /\ lastOp.op = "remove"
    /\ taskList = << <<"b">>, <<"a">> >>
    /\ Persisted = << <<"b">> >>

\* what a user sees of a page and of its store
Observable(p) ==
    [taskList |-> p.taskList, storage |-> p.storage,
     inputValue |-> p.inputValue, message |-> p.message]

\* C11: run side by side from the same persisted value on the same events,
\* the three scripts have after every event the same visible list, the same
\* persisted value, the same input field content, and agree on whether a
\* validation failure was reported.
C11_VariantsAgree ==
    \A v, w \in Variants : Observable(pages[v]) = Observable(pages[w])

\* C13: two pages share the store, each loads once and then submits in any
\* interleaving, without removes: the persisted sequence is the initial one
\* followed by every submitted text, once per submit, in the order in which
\* the submits ran.
C13_NoLostAdd ==
    /\ PersistedOk
    /\ Persisted = log

C13_Witness ==
    /\ pages[1].taskList = << <<"a">> >>
    /\ pages[2].taskList = << <<"b">> >>
    /\ Persisted = << <<"a">>, <<"b">> >>
    /\ log = << <<"a">>, <<"b">> >>

====
